---------------------------- MODULE Spec2Model ----------------------------
(***************************************************************************)
(* Model of HybridNoahToolsCpp (client/nitromodules/noah-tools/cpp): the   *)
(* URL parser parseUrl, the blocking request routine performRequest /      *)
(* executeRequest, and the two promise-returning entry points nativePost   *)
(* and nativeGet.                                                          *)
(*                                                                         *)
(* Strings are sequences of one-character strings, so that the regular     *)
(* expression of parseUrl is matched character by character.               *)
(***************************************************************************)
EXTENDS Integers, Sequences, FiniteSets, TLC

(***************************************************************************)
(* Bounds of the model.                                                    *)
(***************************************************************************)
\* Number of call slots: calls that may be in flight at the same time.
MaxCalls == 2
\* timeoutSeconds is a double; it is modelled in 1/UnitsPerSecond seconds.
UnitsPerSecond == 2
\* Largest timeoutSeconds drawn, in those units.
MaxTimeoutUnits == 3

(***************************************************************************)
(* Characters and string literals of the source.                           *)
(***************************************************************************)
DigitChars == <<"0", "1", "2", "3", "4", "5", "6", "7", "8", "9">>
Digit == {DigitChars[i] : i \in 1..10}
\* std::regex (ECMAScript grammar): '.' matches any character but a line
\* terminator.
LineTerminators == {"\n", "\r"}

Str_http == <<"h", "t", "t", "p">>
Str_https == <<"h", "t", "t", "p", "s">>
Str_sep == <<":", "/", "/">>
Str_slash == <<"/">>

\* int is 32 bits wide on every platform the module is built for.
INT_MAX == 2147483647

(***************************************************************************)
(* Exceptions.  what/detail are the text of std::exception::what().        *)
(***************************************************************************)
NoException == [type |-> "", what |-> "", detail |-> ""]
RuntimeError(msg, more) == [type |-> "std::runtime_error", what |-> msg, detail |-> more]
\* std::stoi throws std::out_of_range("stoi") when the value does not fit int.
OutOfRange == [type |-> "std::out_of_range", what |-> "stoi", detail |-> ""]

(***************************************************************************)
(* struct ParsedUrl and parseUrl.                                           *)
(***************************************************************************)
NoParsedUrl == [scheme |-> <<>>, host |-> <<>>, port |-> 0, path |-> <<>>]

DigitVal(ch) == (CHOOSE i \in 1..10 : DigitChars[i] = ch) - 1

\* std::stoi on a run of decimal digits: the value, or out_of_range when it
\* exceeds INT_MAX.  The accumulator never leaves the int range.
RECURSIVE StoIAcc(_, _, _)
StoIAcc(s, i, acc) ==
    IF i > Len(s) THEN [ok |-> TRUE, val |-> acc]
    ELSE LET d == DigitVal(s[i])
         IN IF acc > (INT_MAX - d) \div 10
            THEN [ok |-> FALSE, val |-> 0]
            ELSE StoIAcc(s, i + 1, acc * 10 + d)

StoI(s) == StoIAcc(s, 1, 0)

\* Every way ^(https?)://([^:/]+)(?::(\d+))?(.*)$ matches the whole of url,
\* as <<sl, he, pe>>: sl is the length of group 1, he the index of the last
\* character of group 2, pe the index of the last character of the optional
\* port group (pe = he when the group does not take part in the match).
SchemeLens(url) ==
    { n \in {4, 5} :
        /\ Len(url) >= n + 3
        /\ SubSeq(url, 1, n) \in {Str_http, Str_https}
        /\ SubSeq(url, n + 1, n + 3) = Str_sep }

HostEnds(url, sl) ==
    { he \in (sl + 4)..Len(url) : \A k \in (sl + 4)..he : url[k] \notin {":", "/"} }

PortEnds(url, he) ==
    {he} \cup { pe \in (he + 2)..Len(url) :
                  /\ url[he + 1] = ":"
                  /\ \A k \in (he + 2)..pe : url[k] \in Digit }

\* '.' matches any character but a line terminator.
RestMatches(url, pe) == \A k \in (pe + 1)..Len(url) : url[k] \notin LineTerminators

RegexMatches(url) ==
    UNION { UNION { { <<sl, he, pe>> :
                        pe \in {q \in PortEnds(url, he) : RestMatches(url, q)} } :
                    he \in HostEnds(url, sl) } :
            sl \in SchemeLens(url) }

\* The quantifiers are greedy and are tried left to right: s? before the
\* host's +, the host's + before the port group's ? and its \d+.
Preferred(m1, m2) ==
    \/ m1[1] > m2[1]
    \/ m1[1] = m2[1] /\ m1[2] > m2[2]
    \/ m1[1] = m2[1] /\ m1[2] = m2[2] /\ m1[3] >= m2[3]

FirstMatch(M) == CHOOSE m \in M : \A o \in M : Preferred(m, o)

\* Mutant: the https default is forgotten.
DefaultPort_AlwaysHttp(scheme) == 80

DefaultPort(scheme) == IF scheme = Str_https THEN 443 ELSE 80

PathOrRoot(p) == IF p = <<>> THEN Str_slash ELSE p

\* The body of parseUrl once regex_match has succeeded with match m.
ParseMatched(url, m) ==
    LET scheme == SubSeq(url, 1, m[1])
        host == SubSeq(url, m[1] + 4, m[2])
        matched3 == m[3] > m[2]
        num == IF matched3 THEN StoI(SubSeq(url, m[2] + 2, m[3]))
               ELSE [ok |-> TRUE, val |-> DefaultPort(scheme)]
        path == SubSeq(url, m[3] + 1, Len(url))
    IN IF ~num.ok
       THEN [ok |-> FALSE, value |-> NoParsedUrl, error |-> OutOfRange]
       ELSE [ok |-> TRUE,
             value |-> [scheme |-> scheme, host |-> host,
                        port |-> num.val, path |-> PathOrRoot(path)],
             error |-> NoException]

ParseMatches(url, M) ==
    IF M = {}
    THEN [ok |-> FALSE, value |-> NoParsedUrl,
          error |-> RuntimeError("Invalid URL format", "")]
    ELSE ParseMatched(url, FirstMatch(M))

ParseUrl(url) == ParseMatches(url, RegexMatches(url))

(***************************************************************************)
(* Inputs.  A URL handed to parseUrl is assembled from four pieces (what   *)
(* precedes the host, the host, the port text after a ':' when there is    *)
(* one, the rest); the program sees only the assembled string.             *)
(***************************************************************************)
RECURSIVE ToDigits(_)
ToDigits(n) ==
    IF n < 10 THEN <<DigitChars[n + 1]>>
    ELSE Append(ToDigits(n \div 10), DigitChars[(n % 10) + 1])

NoPort == [present |-> FALSE, text |-> <<>>]
PortText(t) == [present |-> TRUE, text |-> t]

Prefixes ==
    { Str_http \o Str_sep, Str_https \o Str_sep,
      <<"f", "t", "p">> \o Str_sep,          \* another scheme
      Str_http \o <<":", "/">>,               \* one slash short
      <<>>,                                   \* no scheme at all
      <<"H", "T", "T", "P">> \o Str_sep }     \* the grammar is case-sensitive

Hosts == { <<>>, <<"h">>, <<"e", "x", ".", "c", "o">>, <<"a", "\n", "b">> }

PortNumbers == {0, 1, 80, 8443, 65535, 65536, INT_MAX}

Ports ==
    {NoPort} \cup {PortText(ToDigits(n)) : n \in PortNumbers}
    \cup { PortText(<<"0", "8", "0">>),
           PortText(<<"2", "1", "4", "7", "4", "8", "3", "6", "4", "8">>),
           PortText(<<"9", "9", "9", "9", "9", "9", "9", "9", "9", "9", "9">>),
           PortText(<<"a", "b", "c">>),
           PortText(<<"8", "a">>),
           PortText(<<>>) }

Paths ==
    { <<>>, <<"/">>, <<"/", "a", "/", "b">>,
      <<"/", "p", "?", "q", "=", "1", "#", "f">>,
      <<"/", "a", ":", "8">>,
      <<"/", "a", "\n", "b">> }

Givens == [prefix : Prefixes, host : Hosts, port : Ports, path : Paths]

Assemble(g) ==
    g.prefix \o g.host \o (IF g.port.present THEN <<":">> \o g.port.text ELSE <<>>)
    \o g.path

NotReturned == [ok |-> FALSE, value |-> NoParsedUrl, error |-> NoException]

(***************************************************************************)
(* The build: CPPHTTPLIB_OPENSSL_SUPPORT, the platform macro, what the     *)
(* platform helper getIOSCACertPath returns, and whether the HTTP          *)
(* library's SSLClient verifies the server certificate when the caller     *)
(* never says so.                                                          *)
(***************************************************************************)
Platforms == {"apple", "android", "other"}

IosCertPaths == {"", "<app bundle>/cacert.pem"}

Builds ==
    { b \in [tls : BOOLEAN, platform : Platforms, iosCertPath : IosCertPaths,
             verifyByDefault : BOOLEAN] :
        b.platform # "apple" => b.iosCertPath = "" }

GetCACertPath(b) ==
    IF b.platform = "apple" THEN b.iosCertPath
    ELSE IF b.platform = "android" THEN "/system/etc/security/cacerts"
    ELSE ""

(***************************************************************************)
(* Calls.  A call slot holds one execution of performRequest: its          *)
(* arguments, its locals and the promise it settles.                       *)
(***************************************************************************)
Calls == 1..MaxCalls

NoArgs == [url |-> <<>>, method |-> "", body |-> "", headers |-> {},
           timeoutSeconds |-> 0]

NoTimeout == [sec |-> 0, usec |-> 0]

\* httplib::Client / httplib::SSLClient, with the requests issued on it.
NoClient == [kind |-> "none", host |-> <<>>, port |-> 0,
             readTimeout |-> NoTimeout, writeTimeout |-> NoTimeout,
             verify |-> FALSE, caCertDir |-> "", requests |-> <<>>]

\* httplib::Result
NoResult == [ok |-> FALSE, error |-> "", status |-> 0, body |-> <<>>,
             headers |-> <<>>]

\* struct HttpResponse
NoResponse == [status |-> 0, body |-> <<>>, headers |-> {}]

NoOutcome == [kind |-> "none", response |-> NoResponse, error |-> NoException]
Returned(r) == [kind |-> "returned", response |-> r, error |-> NoException]
Thrown(e) == [kind |-> "thrown", response |-> NoResponse, error |-> e]

NoPromise == [state |-> "none", settled |-> 0, response |-> NoResponse,
              error |-> NoException]

VARIABLES
    given,      \* the pieces the URL under test was assembled from
    url,        \* argument of parseUrl
    parsePc,    \* "ready" before the call of parseUrl, "returned" after
    result,     \* what parseUrl returned or threw
    build,      \* the build the program runs in
    pc,         \* per call: where its execution stands
    args,       \* per call: the arguments (for an entry point, the lambda's copies)
    parsed,     \* per call: local `parsed` of performRequest
    transport,  \* per address: the client object living there
    netRes,     \* per call: local `res` of executeRequest
    outcome,    \* per call: what performRequest returned or threw
    promise     \* per call: the Promise<HttpResponse> handed to the caller

parseVars == <<given, url, parsePc, result>>
callVars == <<build, pc, args, parsed, transport, netRes, outcome, promise>>
vars == <<given, url, parsePc, result, build, pc, args, parsed,
          transport, netRes, outcome, promise>>

NoCalls ==
    /\ pc = [c \in Calls |-> "idle"]
    /\ args = [c \in Calls |-> NoArgs]
    /\ parsed = [c \in Calls |-> NoParsedUrl]
    /\ transport = [c \in Calls |-> NoClient]
    /\ netRes = [c \in Calls |-> NoResult]
    /\ outcome = [c \in Calls |-> NoOutcome]
    /\ promise = [c \in Calls |-> NoPromise]

NoParse ==
    /\ given = [prefix |-> <<>>, host |-> <<>>, port |-> NoPort, path |-> <<>>]
    /\ url = <<>>
    /\ parsePc = "unused"
    /\ result = NotReturned

(***************************************************************************)
(* performRequest and executeRequest, step by step.                        *)
(***************************************************************************)
\* The arguments the running call reads: for an entry point, the copies its
\* lambda captured by value ([url, body, headers, timeoutSeconds]), which
\* outlive the objects the entry point's reference parameters referred to.
LambdaArgs(c) == args[c]

\* Mutant: one client object shared by all calls (a static local).
ClientAddr_Static(c) == 1

\* `client` is a local of performRequest: every call has one of its own, in
\* its own stack frame.
ClientAddr(c) == c

\* httplib::SSLClient client(host, port) / httplib::Client client(host, port)
NewClient(kind, host, port, b) ==
    [NoClient EXCEPT !.kind = kind, !.host = host, !.port = port,
                     !.verify = b.verifyByDefault]

\* Mutant: without TLS support an https URL falls back to the plain client.
TransportKind_Downgrade(scheme, tls) ==
    IF scheme = Str_https /\ tls THEN "SSLClient" ELSE "Client"

\* Which client performRequest constructs; "unsupported" is the #else branch
\* that throws.
TransportKind(scheme, tls) ==
    IF scheme = Str_https
    THEN (IF tls THEN "SSLClient" ELSE "unsupported")
    ELSE "Client"

\* static_cast<long>(timeoutSeconds): the fraction is dropped.
StaticCastLong(units) == units \div UnitsPerSecond

SetReadTimeout(cl, sec, usec) ==
    [cl EXCEPT !.readTimeout = [sec |-> sec, usec |-> usec]]

SetWriteTimeout(cl, sec, usec) ==
    [cl EXCEPT !.writeTimeout = [sec |-> sec, usec |-> usec]]

EnableServerCertificateVerification(cl, on) == [cl EXCEPT !.verify = on]

SetCaCertPath(cl, dir) == [cl EXCEPT !.caCertDir = dir]

\* Mutant: verification is switched on only together with a CA path.
ConfigureSSL_VerifyWithCertPath(cl, timeoutSeconds, b) ==
    LET t1 == SetReadTimeout(cl, StaticCastLong(timeoutSeconds), 0)
        t2 == SetWriteTimeout(t1, StaticCastLong(timeoutSeconds), 0)
        certPath == GetCACertPath(b)
    IN IF certPath # ""
       THEN SetCaCertPath(EnableServerCertificateVerification(t2, TRUE), certPath)
       ELSE t2

ConfigureSSL(cl, timeoutSeconds, b) ==
    LET t1 == SetReadTimeout(cl, StaticCastLong(timeoutSeconds), 0)
        t2 == SetWriteTimeout(t1, StaticCastLong(timeoutSeconds), 0)
        v == EnableServerCertificateVerification(t2, TRUE)
        certPath == GetCACertPath(b)
    IN IF certPath # "" THEN SetCaCertPath(v, certPath) ELSE v

ConfigurePlain(cl, timeoutSeconds) ==
    LET t1 == SetReadTimeout(cl, StaticCastLong(timeoutSeconds), 0)
    IN SetWriteTimeout(t1, StaticCastLong(timeoutSeconds), 0)

\* Mutant: any method that is not POST is sent as a GET.
MethodVerb_DefaultGet(method) == IF method = "POST" THEN "Post" ELSE "Get"

\* The member executeRequest calls for a method string; "none" is the
\* branch that throws.
MethodVerb(method) ==
    IF method = "POST" THEN "Post"
    ELSE IF method = "GET" THEN "Get"
    ELSE "none"

\* client.Post(path, httpHeaders, body, "application/json") /
\* client.Get(path, httpHeaders), as the client sends it.
MakeRequest(c, cl, verb, path, headers, body) ==
    [caller |-> c, verb |-> verb, path |-> path, headers |-> headers,
     body |-> IF verb = "Post" THEN body ELSE "",
     contentType |-> IF verb = "Post" THEN "application/json" ELSE "",
     kind |-> cl.kind, host |-> cl.host, port |-> cl.port, verify |-> cl.verify]

\* Mutant: the request is sent a second time.
Issue_Retry(cl, req) == [cl EXCEPT !.requests = Append(Append(@, req), req)]

Issue(cl, req) == [cl EXCEPT !.requests = Append(@, req)]

\* What the network may do with a request: fail (httplib::Error) or
\* deliver it to a server that answers.
NetBehaviours ==
    { [ok |-> FALSE, error |-> "Could not establish connection", status |-> 0],
      [ok |-> FALSE, error |-> "Failed to read connection", status |-> 0],
      [ok |-> TRUE, error |-> "", status |-> 200],
      [ok |-> TRUE, error |-> "", status |-> 404] }

\* The server echoes the request it received; Set-Cookie comes twice.
ServerReply(req, n) ==
    IF n.ok
    THEN [ok |-> TRUE, error |-> "", status |-> n.status,
          body |-> <<req.verb, req.host, req.port, req.path, req.body,
                     req.contentType, req.headers>>,
          headers |-> << <<"Content-Type", "text/plain">>,
                         <<"Set-Cookie", "a=1">>, <<"Set-Cookie", "b=2">> >>]
    ELSE [NoResult EXCEPT !.error = n.error]

\* response.headers[key] = value over res->headers: a later occurrence of a
\* key overwrites an earlier one.
HeaderMap(hs) ==
    { hs[i] : i \in { k \in 1..Len(hs) :
                        \A j \in (k + 1)..Len(hs) : hs[j][1] # hs[k][1] } }

BuildResponse(res) ==
    [status |-> res.status, body |-> res.body, headers |-> HeaderMap(res.headers)]

RequestFailed(res) == RuntimeError("Request failed: ", res.error)

Finish(c, o) ==
    /\ outcome' = [outcome EXCEPT ![c] = o]
    /\ pc' = [pc EXCEPT ![c] = "finished"]

\* auto parsed = parseUrl(url);
ParseStep(c) ==
    /\ pc[c] = "parse"
    /\ LET r == ParseUrl(LambdaArgs(c).url)
       IN IF r.ok
          THEN /\ parsed' = [parsed EXCEPT ![c] = r.value]
               /\ pc' = [pc EXCEPT ![c] = "select"]
               /\ UNCHANGED outcome
          ELSE /\ Finish(c, Thrown(r.error))
               /\ UNCHANGED parsed
    /\ UNCHANGED <<build, args, transport, netRes, promise>>
    /\ UNCHANGED parseVars

\* if (parsed.scheme == "https") { #ifdef ... SSLClient ... #else throw }
\* else { Client ... }
SelectTransport(c) ==
    /\ pc[c] = "select"
    /\ LET kind == TransportKind(parsed[c].scheme, build.tls)
       IN IF kind = "unsupported"
          THEN /\ Finish(c, Thrown(RuntimeError("HTTPS not supported", "")))
               /\ UNCHANGED transport
          ELSE /\ transport' = [transport EXCEPT ![ClientAddr(c)] =
                        NewClient(kind, parsed[c].host, parsed[c].port, build)]
               /\ pc' = [pc EXCEPT ![c] = "configure"]
               /\ UNCHANGED outcome
    /\ UNCHANGED <<build, args, parsed, netRes, promise>>
    /\ UNCHANGED parseVars

\* the set_* / enable_* calls between the construction of the client and
\* the call of executeRequest
Configure(c) ==
    /\ pc[c] = "configure"
    /\ LET cl == transport[ClientAddr(c)]
           t == LambdaArgs(c).timeoutSeconds
       IN transport' = [transport EXCEPT ![ClientAddr(c)] =
              IF cl.kind = "SSLClient" THEN ConfigureSSL(cl, t, build)
              ELSE ConfigurePlain(cl, t)]
    /\ pc' = [pc EXCEPT ![c] = "execute"]
    /\ UNCHANGED <<build, args, parsed, netRes, outcome, promise>>
    /\ UNCHANGED parseVars

\* executeRequest up to the return of client.Post / client.Get
ExecuteRequest(c) ==
    /\ pc[c] = "execute"
    /\ LET a == LambdaArgs(c)
           verb == MethodVerb(a.method)
           cl == transport[ClientAddr(c)]
       IN IF verb = "none"
          THEN /\ Finish(c, Thrown(RuntimeError("Unsupported HTTP method", "")))
               /\ UNCHANGED transport
          ELSE /\ transport' = [transport EXCEPT ![ClientAddr(c)] =
                        Issue(cl, MakeRequest(c, cl, verb, parsed[c].path,
                                              a.headers, a.body))]
               /\ pc' = [pc EXCEPT ![c] = "transport"]
               /\ UNCHANGED outcome
    /\ UNCHANGED <<build, args, parsed, netRes, promise>>
    /\ UNCHANGED parseVars

\* the exchange ends: if (!res) throw ...; otherwise the response is built
TransportResult(c) ==
    /\ pc[c] = "transport"
    /\ \E n \in NetBehaviours :
         LET rs == transport[ClientAddr(c)].requests
             res == ServerReply(rs[Len(rs)], n)
         IN /\ netRes' = [netRes EXCEPT ![c] = res]
            /\ IF ~res.ok
               THEN Finish(c, Thrown(RequestFailed(res)))
               ELSE Finish(c, Returned(BuildResponse(res)))
    /\ UNCHANGED <<build, args, parsed, transport, promise>>
    /\ UNCHANGED parseVars

PerformRequestStep(c) ==
    \/ ParseStep(c)
    \/ SelectTransport(c)
    \/ Configure(c)
    \/ ExecuteRequest(c)
    \/ TransportResult(c)

(***************************************************************************)
(* performRequest called directly, with any method string.                 *)
(***************************************************************************)
ExecGivens ==
    { g \in Givens :
        /\ g.prefix \in {Str_http \o Str_sep, Str_https \o Str_sep, <<>>}
        /\ g.host = <<"h">>
        /\ g.port \in { NoPort, PortText(ToDigits(8443)), PortText(<<"a", "b", "c">>),
                        PortText(<<"0">>) }
        /\ g.path \in {<<>>, <<"/", "a", "/", "b">>} }

Methods == {"GET", "POST", "PUT", ""}

Bodies == {"", "{\"k\":1}"}

HeaderMaps == { {}, {<<"Accept", "*/*">>, <<"X-Id", "7">>} }

Timeouts == 0..MaxTimeoutUnits

InitExec ==
    /\ given \in ExecGivens
    /\ url = <<>>
    /\ parsePc = "unused"
    /\ result = NotReturned
    /\ build \in Builds
    /\ pc = [c \in Calls |-> IF c = 1 THEN "parse" ELSE "idle"]
    /\ \E m \in Methods, b \in Bodies, h \in HeaderMaps, t \in Timeouts :
         args = [c \in Calls |->
                   IF c = 1
                   THEN [url |-> Assemble(given), method |-> m, body |-> b,
                         headers |-> h, timeoutSeconds |-> t]
                   ELSE NoArgs]
    /\ parsed = [c \in Calls |-> NoParsedUrl]
    /\ transport = [c \in Calls |-> NoClient]
    /\ netRes = [c \in Calls |-> NoResult]
    /\ outcome = [c \in Calls |-> NoOutcome]
    /\ promise = [c \in Calls |-> NoPromise]

NextExec == \E c \in Calls : PerformRequestStep(c)

SpecExec == InitExec /\ [][NextExec]_vars

(***************************************************************************)
(* The entry points nativePost and nativeGet: each hands a lambda that     *)
(* runs performRequest to Promise<HttpResponse>::async and returns the     *)
(* promise; the lambdas of several calls run concurrently.                 *)
(***************************************************************************)
CallUrls ==
    { Assemble(g) : g \in
        { [prefix |-> Str_http \o Str_sep, host |-> <<"h">>, port |-> NoPort,
           path |-> <<"/", "a", "/", "b">>],
          [prefix |-> Str_https \o Str_sep, host |-> <<"e", "x", ".", "c", "o">>,
           port |-> PortText(ToDigits(8443)), path |-> <<>>] } }

CallBodies == {"{\"k\":1}"}

CallHeaderMaps == { {<<"Accept", "*/*">>} }

CallTimeouts == {MaxTimeoutUnits}

\* Slots are taken in order.
FreeSlot(c) == pc[c] = "idle" /\ \A d \in Calls : d < c => pc[d] # "idle"

\* Promise<HttpResponse>::async(lambda): the promise is created pending and
\* the lambda, holding the copies a, is handed to a worker thread.
Async(c, a) ==
    /\ args' = [args EXCEPT ![c] = a]
    /\ promise' = [promise EXCEPT ![c] = [NoPromise EXCEPT !.state = "pending"]]
    /\ pc' = [pc EXCEPT ![c] = "parse"]
    /\ UNCHANGED <<build, parsed, transport, netRes, outcome>>
    /\ UNCHANGED parseVars

NativePost(c) ==
    /\ FreeSlot(c)
    /\ \E u \in CallUrls, b \in CallBodies, h \in CallHeaderMaps, t \in CallTimeouts :
         Async(c, [url |-> u, method |-> "POST", body |-> b, headers |-> h,
                   timeoutSeconds |-> t])

NativeGet(c) ==
    /\ FreeSlot(c)
    /\ \E u \in CallUrls, h \in CallHeaderMaps, t \in CallTimeouts :
         Async(c, [url |-> u, method |-> "GET", body |-> "", headers |-> h,
                   timeoutSeconds |-> t])

\* The lambda has returned or thrown: the promise is resolved or rejected.
Settle(c) ==
    /\ pc[c] = "finished"
    /\ promise' = [promise EXCEPT ![c] =
          [state |-> IF outcome[c].kind = "returned" THEN "resolved" ELSE "rejected",
           settled |-> @.settled + 1,
           response |-> outcome[c].response,
           error |-> outcome[c].error]]
    /\ pc' = [pc EXCEPT ![c] = "settled"]
    /\ UNCHANGED <<build, args, parsed, transport, netRes, outcome>>
    /\ UNCHANGED parseVars

\* The builds the concurrent calls are run in: with and without TLS.
CallBuilds == {b \in Builds : b.platform = "android" /\ ~b.verifyByDefault}

Init ==
    /\ NoParse
    /\ build \in CallBuilds
    /\ NoCalls

Next ==
    \E c \in Calls :
        \/ NativePost(c)
        \/ NativeGet(c)
        \/ PerformRequestStep(c)
        \/ Settle(c)

Spec == Init /\ [][Next]_vars

(***************************************************************************)
(* parseUrl on its own.                                                    *)
(***************************************************************************)
InitParse ==
    /\ given \in Givens
    /\ url = Assemble(given)
    /\ parsePc = "ready"
    /\ result = NotReturned
    /\ build \in {b \in Builds : b.tls /\ b.platform = "other" /\ b.verifyByDefault}
    /\ NoCalls

CallParseUrl ==
    /\ parsePc = "ready"
    /\ result' = ParseUrl(url)
    /\ parsePc' = "returned"
    /\ UNCHANGED <<given, url>>
    /\ UNCHANGED callVars

NextParse == CallParseUrl

SpecParse == InitParse /\ [][NextParse]_vars
(***************************************************************************)
(* Properties of parseUrl (specification SpecParse).                       *)
(***************************************************************************)
SchemePrefixes == {Str_http \o Str_sep, Str_https \o Str_sep}

HasSchemePrefix(u) ==
    \E p \in SchemePrefixes : Len(u) >= Len(p) /\ SubSeq(u, 1, Len(p)) = p

IsDecimal(t) == t # <<>> /\ \A i \in 1..Len(t) : t[i] \in Digit

HostOk(h) == h # <<>> /\ \A i \in 1..Len(h) : h[i] \notin {":", "/"}

PathOk(p) == p = <<>> \/ p[1] = "/"

\* scheme '://' host [':' port] [path], as claim C2 builds it
WellFormed(g) ==
    /\ g.prefix \in SchemePrefixes
    /\ HostOk(g.host)
    /\ g.port.present => IsDecimal(g.port.text)
    /\ PathOk(g.path)

GivenScheme(g) == SubSeq(g.prefix, 1, Len(g.prefix) - 3)

RECURSIVE StripZeros(_)
StripZeros(t) == IF Len(t) > 1 /\ t[1] = "0" THEN StripZeros(Tail(t)) ELSE t

\* a <= b for two digit strings of the same length
DigitsLeq(a, b) ==
    \A i \in 1..Len(a) :
        (\A j \in 1..(i - 1) : a[j] = b[j]) => DigitVal(a[i]) <= DigitVal(b[i])

\* the decimal number t is at most INT_MAX
FitsInt(t) ==
    LET s == StripZeros(t)
        m == ToDigits(INT_MAX)
    IN Len(s) < Len(m) \/ (Len(s) = Len(m) /\ DigitsLeq(s, m))

Recovered(g, r) ==
    /\ r.ok
    /\ r.value.scheme = GivenScheme(g)
    /\ r.value.host = g.host
    /\ IF g.port.present
       THEN ToDigits(r.value.port) = StripZeros(g.port.text)
       ELSE r.value.port = (IF GivenScheme(g) = Str_https THEN 443 ELSE 80)
    /\ r.value.path = (IF g.path = <<>> THEN Str_slash ELSE g.path)

\* The three malformations of claim C1.
NoSchemePrefix(g) == ~HasSchemePrefix(Assemble(g))
EmptyHost(g) == g.prefix \in SchemePrefixes /\ g.host = <<>>
NonNumericPort(g) ==
    /\ g.prefix \in SchemePrefixes
    /\ HostOk(g.host)
    /\ g.port.present
    /\ ~IsDecimal(g.port.text)

Malformed(g) == NoSchemePrefix(g) \/ EmptyHost(g) \/ NonNumericPort(g)

InvalidUrl == RuntimeError("Invalid URL format", "")

\* C1: an input with no http:// or https:// prefix, with an empty host, or
\* with a port text that is not a run of decimal digits makes parseUrl fail
\* with InvalidUrl, and no ParsedUrl is returned.
C1_MalformedFailsInvalidUrl ==
    (parsePc = "returned" /\ Malformed(given)) =>
        (~result.ok /\ result.error = InvalidUrl)

\* C2 as stated: every well-formed input (scheme http or https, non-empty
\* host without ':' and '/', decimal port when present, path empty or
\* starting with '/') parses, and scheme, host, port and path are recovered,
\* with the port defaulted to 443/80 and an empty path turned into "/".
C2_WellFormedRecovered ==
    (parsePc = "returned" /\ WellFormed(given)) => Recovered(given, result)

\* C2 as amended: the same, for the well-formed inputs whose port, when
\* present, is at most INT_MAX and whose path holds no line terminator.
C2_WellFormedInRangeRecovered ==
    ( /\ parsePc = "returned"
      /\ WellFormed(given)
      /\ given.port.present => FitsInt(given.port.text)
      /\ \A i \in 1..Len(given.path) : given.path[i] \notin LineTerminators )
    => Recovered(given, result)

\* C2's case: a well-formed https URL with no port and an empty path has
\* been parsed, and both defaults were applied.
C2_Witness ==
    /\ parsePc = "returned"
    /\ WellFormed(given)
    /\ given.prefix = Str_https \o Str_sep
    /\ ~given.port.present
    /\ given.path = <<>>
    /\ result.ok
    /\ result.value.port = 443
    /\ result.value.path = Str_slash

\* C3: every ParsedUrl that parseUrl returns has a port in 1..65535 and a
\* non-empty path.
C3_PortInRangePathNonEmpty ==
    (parsePc = "returned" /\ result.ok) =>
        (result.value.port \in 1..65535 /\ result.value.path # <<>>)

(***************************************************************************)
(* Properties of performRequest (specification SpecExec).                  *)
(***************************************************************************)
\* Where the requests issued so far stand: <<address, index>>.
IssuedAt ==
    UNION { { <<a, i>> : i \in 1..Len(transport[a].requests) } : a \in Calls }

RequestAt(p) == transport[p[1]].requests[p[2]]

RequestsBy(c) == Cardinality({ p \in IssuedAt : RequestAt(p).caller = c })

TlsUnavailable == RuntimeError("HTTPS not supported", "")
UnsupportedMethod == RuntimeError("Unsupported HTTP method", "")
TransportError(description) == RuntimeError("Request failed: ", description)

\* C4: an https call that reaches transport use has server certificate
\* verification enabled on its TLS client before the request is issued, and
\* no request ever leaves a TLS client with verification disabled.
C4_TlsRequestsVerified ==
    /\ \A p \in IssuedAt :
         RequestAt(p).kind = "SSLClient" => RequestAt(p).verify
    /\ \A c \in Calls :
         (pc[c] \in {"execute", "transport"} /\ parsed[c].scheme = Str_https) =>
            /\ transport[ClientAddr(c)].kind = "SSLClient"
            /\ transport[ClientAddr(c)].verify

\* C4's case: a request was sent over TLS in a build whose library does not
\* verify by default and whose platform supplies no trusted-root path.
C4_Witness ==
    /\ ~build.verifyByDefault
    /\ GetCACertPath(build) = ""
    /\ \E p \in IssuedAt : RequestAt(p).kind = "SSLClient" /\ RequestAt(p).verify

\* C5: with the parsed scheme https and no TLS support in the build, the
\* call fails with TlsUnavailable whatever the method, no client is made and
\* no request issued; and in no build does an https URL go through the
\* plain client.
C5_NoTlsFailsNoDowngrade ==
    /\ \A c \in Calls :
         (parsed[c].scheme = Str_https /\ ~build.tls) =>
            /\ RequestsBy(c) = 0
            /\ transport[ClientAddr(c)].kind = "none"
            /\ pc[c] \in {"select", "finished"}
            /\ pc[c] = "finished" => outcome[c] = Thrown(TlsUnavailable)
    /\ \A p \in IssuedAt :
         RequestAt(p).kind = "Client" => parsed[RequestAt(p).caller].scheme # Str_https

\* C5's case: an https call with an unsupported method has ended in a build
\* without TLS.
C5_Witness ==
    /\ ~build.tls
    /\ pc[1] = "finished"
    /\ parsed[1].scheme = Str_https
    /\ args[1].method = "PUT"
    /\ outcome[1] = Thrown(TlsUnavailable)

\* C6: a call whose method is neither GET nor POST never issues a request,
\* and when its URL parsed and its client was made it ends with
\* UnsupportedMethod.
C6_UnsupportedMethodNoRequest ==
    \A c \in Calls :
        (pc[c] # "idle" /\ args[c].method \notin {"GET", "POST"}) =>
            /\ RequestsBy(c) = 0
            /\ pc[c] # "transport"
            /\ ( /\ pc[c] = "finished"
                 /\ parsed[c] # NoParsedUrl
                 /\ transport[ClientAddr(c)].kind # "none" )
               => outcome[c] = Thrown(UnsupportedMethod)

\* C6's case: a PUT to a URL that parsed, on a configured TLS client, has
\* ended.
C6_Witness ==
    /\ pc[1] = "finished"
    /\ args[1].method = "PUT"
    /\ transport[ClientAddr(1)].kind = "SSLClient"
    /\ outcome[1] = Thrown(UnsupportedMethod)

\* C7: a call issues at most one request; exactly one once parsing,
\* transport selection and the method check have succeeded; and a call that
\* ended with a transport failure has issued exactly one.
C7_ExactlyOneRequest ==
    \A c \in Calls :
        /\ RequestsBy(c) <= 1
        /\ ( /\ pc[c] \in {"transport", "finished"}
             /\ parsed[c] # NoParsedUrl
             /\ transport[ClientAddr(c)].kind # "none"
             /\ args[c].method \in {"GET", "POST"} )
           => RequestsBy(c) = 1
        /\ (pc[c] = "finished" /\ outcome[c].error.what = "Request failed: ")
           => RequestsBy(c) = 1

\* C7's case: a call has ended with a transport failure.
C7_Witness ==
    /\ pc[1] = "finished"
    /\ ~netRes[1].ok
    /\ outcome[1] = Thrown(TransportError(netRes[1].error))
    /\ RequestsBy(1) = 1

\* The failures claim C8 lets call 1 end with: the one of each cause that
\* applies to it.
FailuresDue ==
    (IF Malformed(given) THEN {InvalidUrl} ELSE {})
    \cup (IF args[1].method \notin {"GET", "POST"} THEN {UnsupportedMethod} ELSE {})
    \cup (IF GivenScheme(given) = Str_https /\ ~build.tls THEN {TlsUnavailable} ELSE {})
    \cup (IF netRes[1].error # "" THEN {TransportError(netRes[1].error)} ELSE {})

\* C8: a call ends with a complete response taken from the transport's
\* successful result, or with one failure; an invalid URL, an unsupported
\* method, missing TLS or a transport error gives the corresponding failure
\* and no response.
C8_ResponseOrCorrespondingFailure ==
    pc[1] = "finished" =>
        /\ outcome[1].kind \in {"returned", "thrown"}
        /\ outcome[1].kind = "returned" =>
              /\ netRes[1].ok
              /\ outcome[1].response.status = netRes[1].status
              /\ outcome[1].response.body = netRes[1].body
              /\ \A h \in outcome[1].response.headers :
                    \E i \in 1..Len(netRes[1].headers) : netRes[1].headers[i] = h
              /\ \A i \in 1..Len(netRes[1].headers) :
                    \E h \in outcome[1].response.headers : h[1] = netRes[1].headers[i][1]
        /\ FailuresDue # {} =>
              (outcome[1].kind = "thrown" /\ outcome[1].error \in FailuresDue)

\* A client timeout in the units timeoutSeconds is modelled in.
InUnits(t) == t.sec * UnitsPerSecond + (t.usec * UnitsPerSecond) \div 1000000

\* C9: once a call has configured its client, plain or TLS, the client's
\* read timeout and write timeout both equal the timeoutSeconds supplied.
C9_TimeoutsAsSupplied ==
    \A c \in Calls :
        (pc[c] \in {"execute", "transport"}) =>
            /\ InUnits(transport[ClientAddr(c)].readTimeout) = args[c].timeoutSeconds
            /\ InUnits(transport[ClientAddr(c)].writeTimeout) = args[c].timeoutSeconds

(***************************************************************************)
(* Properties of concurrent nativePost / nativeGet calls (specification    *)
(* Spec).                                                                  *)
(***************************************************************************)
\* What the network did in call c, read off the result the call received.
BehaviourOf(res) == [ok |-> res.ok, error |-> res.error, status |-> res.status]

\* performRequest(a.url, a.method, a.body, a.headers, a.timeoutSeconds) run
\* from start to end by call c with nothing else running, in build b, the
\* network behaving as n.
RunAlone(c, a, b, n) ==
    LET p == ParseUrl(a.url)
        kind == TransportKind(p.value.scheme, b.tls)
        made == NewClient(kind, p.value.host, p.value.port, b)
        cl == IF kind = "SSLClient" THEN ConfigureSSL(made, a.timeoutSeconds, b)
              ELSE ConfigurePlain(made, a.timeoutSeconds)
        verb == MethodVerb(a.method)
        res == ServerReply(MakeRequest(c, cl, verb, p.value.path, a.headers, a.body), n)
    IN IF ~p.ok THEN Thrown(p.error)
       ELSE IF kind = "unsupported" THEN Thrown(TlsUnavailable)
       ELSE IF verb = "none" THEN Thrown(UnsupportedMethod)
       ELSE IF ~res.ok THEN Thrown(RequestFailed(res))
       ELSE Returned(BuildResponse(res))

SettledWith(o) ==
    [state |-> IF o.kind = "returned" THEN "resolved" ELSE "rejected",
     settled |-> 1, response |-> o.response, error |-> o.error]

\* C10: whatever the interleaving of concurrent calls, a call's client is
\* used by that call alone and stays as the call made it, the call's promise
\* is settled exactly once, and it is settled with what the call, given its
\* own captured arguments, would have produced running alone.
C10_CallsIndependent ==
    /\ \A p \in IssuedAt :
         /\ ClientAddr(RequestAt(p).caller) = p[1]
         /\ \A q \in IssuedAt : q[1] = p[1] => RequestAt(q).caller = RequestAt(p).caller
    /\ \A c \in Calls :
         /\ pc[c] \in {"configure", "execute", "transport"} =>
               /\ transport[ClientAddr(c)].host = parsed[c].host
               /\ transport[ClientAddr(c)].port = parsed[c].port
         /\ promise[c].settled <= 1
         /\ pc[c] \in {"parse", "select", "configure", "execute", "transport", "finished"}
               => promise[c] = [NoPromise EXCEPT !.state = "pending"]
         /\ pc[c] = "finished" =>
               outcome[c] = RunAlone(c, args[c], build, BehaviourOf(netRes[c]))
         /\ pc[c] = "settled" =>
               promise[c] = SettledWith(RunAlone(c, args[c], build, BehaviourOf(netRes[c])))

\* C10's case: two calls with different arguments overlapped; the one
\* started second has already been resolved while the first one still waits
\* for its own exchange.
C10_Witness ==
    /\ pc[1] = "transport"
    /\ pc[2] = "settled"
    /\ args[1].url # args[2].url
    /\ args[1].method # args[2].method
    /\ promise[2].state = "resolved"
    /\ promise[2].settled = 1

=============================================================================
